---- MODULE Spec2Model ----
(***************************************************************************)
(* A state-machine model of pricing_engine.py: GammaPoissonMixture,        *)
(* PriceElasticityModel, BayesianABTest, BayesianOptimizer and             *)
(* DynamicPricingEngine.                                                   *)
(*                                                                         *)
(* Numbers.  Python floats are modelled as exact rationals <<num, den>>    *)
(* in lowest terms with den > 0, extended with the IEEE specials           *)
(* NaN = <<0, 0>>, +inf = <<1, 0>> and -inf = <<-1, 0>>.  Rounding is not  *)
(* modelled; division by zero and NaN propagation are.                     *)
(***************************************************************************)
EXTENDS Integers, Sequences, FiniteSets, TLC

VARIABLES
    mixture,                  \* a GammaPoissonMixture instance: alpha, beta, lambda_samples
    fit_iters,                \* number of loop iterations fit has executed on mixture
    results,                  \* BayesianABTest.results: variant name -> record
    optimizer,                \* None or a BayesianOptimizer instance
    X_random,                 \* the candidate pool of the last propose_location call
    gamma_poisson_models,     \* DynamicPricingEngine: product id -> GammaPoissonMixture
    elasticity_coefficients,  \* PriceElasticityModel: product id -> elasticity
    base_demand,              \* PriceElasticityModel: product id -> mean quantity
    pricing_history,          \* DynamicPricingEngine.pricing_history
    price_range,              \* the interval optimize_price last handed to get_optimal_price
    pc,                       \* position inside run_bayesian_optimization ("idle" outside)
    run,                      \* locals of run_bayesian_optimization
    objective_calls,          \* the (point, value) calls the current run made to its objective
    update_calls,             \* the (X, y) calls made to update on the current optimizer
    ret                       \* what the last completed operation returned (or raised)

vars == <<mixture, fit_iters, results, optimizer, X_random, gamma_poisson_models,
          elasticity_coefficients, base_demand, pricing_history, price_range,
          pc, run, objective_calls, update_calls, ret>>

-----------------------------------------------------------------------------
(* Option values: None and Some(x), kept as sequences so that TLC can      *)
(* compare them.                                                           *)
None == <<>>
Some(x) == <<x>>
IsNone(o) == Len(o) = 0
The(o) == o[1]

-----------------------------------------------------------------------------
(* Float arithmetic on extended rationals.                                 *)
NaN == <<0, 0>>
R(n) == <<n, 1>>

Abs(n) == IF n < 0 THEN 0 - n ELSE n
Sign(n) == IF n < 0 THEN 0 - 1 ELSE IF n > 0 THEN 1 ELSE 0

RECURSIVE Gcd(_, _)
Gcd(a, b) == IF b = 0 THEN a ELSE Gcd(b, a % b)

Frac(n, d) ==
    LET g == Gcd(Abs(n), Abs(d))
        s == IF d < 0 THEN 0 - 1 ELSE 1
    IN  <<(s * n) \div g, (s * d) \div g>>

\* (a / b) * (c / d) for b # 0 and d # 0, cancelling across before multiplying
Prod(a, b, c, d) ==
    LET g == Gcd(Abs(a), Abs(d))
        h == Gcd(Abs(c), Abs(b))
    IN  IF a = 0 \/ c = 0 THEN <<0, 1>>
        ELSE Frac((a \div g) * (c \div h), (b \div h) * (d \div g))

IsNaN(x) == x = NaN
IsInf(x) == x[2] = 0 /\ x[1] # 0
IsFinite(x) == x[2] # 0

RAdd(x, y) ==
    IF IsNaN(x) \/ IsNaN(y) THEN NaN
    ELSE IF IsInf(x) /\ IsInf(y) THEN (IF x = y THEN x ELSE NaN)
    ELSE IF IsInf(x) THEN x
    ELSE IF IsInf(y) THEN y
    ELSE LET g == Gcd(x[2], y[2])
         IN  Frac(x[1] * (y[2] \div g) + y[1] * (x[2] \div g), (x[2] \div g) * y[2])

RNeg(x) == <<0 - x[1], x[2]>>
RSub(x, y) == RAdd(x, RNeg(y))

RMul(x, y) ==
    IF IsNaN(x) \/ IsNaN(y) THEN NaN
    ELSE IF IsInf(x) \/ IsInf(y)
         THEN (IF x[1] = 0 \/ y[1] = 0 THEN NaN ELSE <<Sign(x[1]) * Sign(y[1]), 0>>)
    ELSE Prod(x[1], x[2], y[1], y[2])

\* numpy true division: 0/0 and inf/inf are nan, x/0 is a signed infinity
RDiv(x, y) ==
    IF IsNaN(x) \/ IsNaN(y) THEN NaN
    ELSE IF IsInf(y) THEN (IF IsInf(x) THEN NaN ELSE R(0))
    ELSE IF y[1] = 0 THEN (IF x[1] = 0 THEN NaN ELSE <<Sign(x[1]), 0>>)
    ELSE IF IsInf(x) THEN <<Sign(x[1]) * Sign(y[1]), 0>>
    ELSE Prod(x[1], x[2], y[2], y[1])

\* x < y and x <= y on floats: every comparison with NaN is false
RLt(x, y) ==
    /\ ~IsNaN(x) /\ ~IsNaN(y)
    /\ IF IsInf(x) \/ IsInf(y)
       THEN (IF IsInf(x) /\ IsInf(y) THEN x[1] < y[1]
             ELSE IF IsInf(x) THEN x[1] < 0 ELSE y[1] > 0)
       ELSE x[1] * y[2] < y[1] * x[2]
RLe(x, y) == ~IsNaN(x) /\ ~IsNaN(y) /\ ~RLt(y, x)

\* Python's max(a, b) and min(a, b): b replaces a only when it compares strictly
RMax(a, b) == IF RLt(a, b) THEN b ELSE a
RMin(a, b) == IF RLt(b, a) THEN b ELSE a

RECURSIVE SumSeq(_)
SumSeq(s) == IF Len(s) = 0 THEN 0 ELSE s[1] + SumSeq(Tail(s))

SeqsUpTo(S, n) == UNION {[1..k -> S] : k \in 0..n}

-----------------------------------------------------------------------------
(* GammaPoissonMixture                                                     *)

DefaultAlpha == 2
DefaultBeta == 1
LambdaSampleSize == 10000

\* __init__: lambda_samples = []
GammaPoissonMixture_init ==
    [alpha |-> R(DefaultAlpha), beta |-> R(DefaultBeta), lambda_samples |-> None]

\* one pass of the loop body of fit; ab = <<alpha, beta>>.
\* np.sum of the empty array is 0.0, so sum_purchases / n is 0.0 / 0 = nan for n = 0.
FitStep(ab, sum_purchases, n) ==
    LET a == RDiv(RAdd(ab[1], R(sum_purchases)), RAdd(R(1), RDiv(R(n), ab[2])))
        b == RDiv(RAdd(ab[2], R(n)), RAdd(a, RDiv(R(sum_purchases), R(n))))
    IN  <<a, b>>

\* n_iter passes.  The loop body is a deterministic function of (alpha, beta), so
\* once a pass leaves them unchanged every later pass does too and the remaining
\* passes are skipped.
RECURSIVE FitLoop(_, _, _, _)
FitLoop(ab, sum_purchases, n, n_iter) ==
    IF n_iter = 0 THEN ab
    ELSE LET nxt == FitStep(ab, sum_purchases, n)
         IN  IF nxt = ab THEN ab ELSE FitLoop(nxt, sum_purchases, n, n_iter - 1)

\* alpha and beta after fit(purchase_data, n_iter)
FitParams(self, purchase_data, n_iter) ==
    FitLoop(<<self.alpha, self.beta>>, SumSeq(purchase_data), Len(purchase_data), n_iter)

\* the draw np.random.gamma(shape, scale, size), kept as its parameters
GammaDraw(shape, scale, size) == [shape |-> shape, scale |-> scale, size |-> size]

\* the ways fit can end: the object it leaves behind and whether it raised.
\* alpha and beta are assigned inside the loop; with nan parameters the numpy
\* build decides whether np.random.gamma returns nan draws or raises ValueError
\* (lambda_samples then keeps its old value).
FitOutcomes(self, purchase_data, n_iter) ==
    LET ab == FitParams(self, purchase_data, n_iter)
        drawn == [alpha |-> ab[1], beta |-> ab[2],
                  lambda_samples |->
                      Some(GammaDraw(ab[1], RDiv(R(1), ab[2]), LambdaSampleSize))]
        kept == [alpha |-> ab[1], beta |-> ab[2],
                 lambda_samples |-> self.lambda_samples]
    IN  IF IsNaN(ab[1]) \/ IsNaN(ab[2])
        THEN {[self |-> drawn, raised |-> FALSE], [self |-> kept, raised |-> TRUE]}
        ELSE {[self |-> drawn, raised |-> FALSE]}

\* get_distribution_params
GetDistributionParams(self) ==
    [alpha |-> self.alpha, beta |-> self.beta,
     mean |-> RDiv(self.alpha, self.beta),
     variance |-> RDiv(self.alpha, RMul(self.beta, self.beta))]

-----------------------------------------------------------------------------
(* BayesianABTest                                                          *)

prior_alpha == 1
prior_beta == 1

VariantNames == {"control", "variant_a", "variant_b"}

\* the record update_variant stores.  alpha + beta = prior_alpha + prior_beta + trials
\* is positive for trials >= 0, so the division for 'mean' cannot raise.
VariantRecord(conversions, trials) ==
    LET posterior_alpha == prior_alpha + conversions
        posterior_beta == prior_beta + trials - conversions
    IN  [alpha |-> posterior_alpha,
         beta |-> posterior_beta,
         mean |-> RDiv(R(posterior_alpha), R(posterior_alpha + posterior_beta)),
         conversions |-> conversions,
         trials |-> trials]

\* (a variant: a re-update adds to the counts already stored for the name)
UpdateVariantMerged(res, variant_name, conversions, trials) ==
    [v \in (DOMAIN res) \cup {variant_name} |->
        IF v # variant_name THEN res[v]
        ELSE IF v \in DOMAIN res
             THEN VariantRecord(res[v].conversions + conversions, res[v].trials + trials)
             ELSE VariantRecord(conversions, trials)]

\* self.results after update_variant(variant_name, conversions, trials)
UpdateVariant(res, variant_name, conversions, trials) ==
    [v \in (DOMAIN res) \cup {variant_name} |->
        IF v = variant_name THEN VariantRecord(conversions, trials) ELSE res[v]]

\* np.random.beta(a, b, n) raises ValueError unless a > 0 and b > 0
BetaDrawable(res) == \A v \in DOMAIN res : res[v].alpha > 0 /\ res[v].beta > 0

SetMax(S) == CHOOSE m \in S : \A x \in S : x <= m

\* max([samples[v][i] for v in samples.keys()])
DrawMax(samples, i) == SetMax({samples[v][i] : v \in DOMAIN samples})

\* the dictionary get_probability_best builds from the drawn samples.
\* samples[variant] == max(...) compares the variant's whole sample array with the
\* maximum of draw i, and the builtin sum adds these arrays over i: best_count is
\* an array whose element j counts the draws i whose maximum equals samples[variant][j].
ProbabilityBest(samples, n_samples) ==
    LET hits == [x \in UNION {{samples[v][j] : j \in 1..n_samples} : v \in DOMAIN samples} |->
                    Cardinality({i \in 1..n_samples : DrawMax(samples, i) = x})]
    IN  [variant \in DOMAIN samples |->
            [j \in 1..n_samples |-> Frac(hits[samples[variant][j]], n_samples)]]

\* np.mean(max_samples - samples[variant]), summed value by value
ExpectedLoss(samples, variant, n_samples) ==
    LET diffs == {DrawMax(samples, i) - samples[variant][i] : i \in 1..n_samples}
        count(d) == Cardinality({i \in 1..n_samples :
                                    DrawMax(samples, i) - samples[variant][i] = d})
        RECURSIVE total(_)
        total(D) == IF D = {} THEN 0
                    ELSE LET d == CHOOSE x \in D : TRUE
                         IN  d * count(d) + total(D \ {d})
    IN  Frac(total(diffs), n_samples)

-----------------------------------------------------------------------------
(* BayesianOptimizer                                                       *)

\* best_value is a float that starts at -inf: <<0, 0>> is -inf, <<1, y>> is y
MinusInf == <<0, 0>>
Finite(y) == <<1, y>>
\* (a variant: y >= self.best_value, so that a later equal y replaces the best)
ExceedsOrEquals(y, best_value) == best_value[1] = 0 \/ y >= best_value[2]
\* y > self.best_value
Exceeds(y, best_value) == best_value[1] = 0 \/ y > best_value[2]

n_initial_default == 5
n_random == 1000

BayesianOptimizer_init(bnds, n_init) ==
    [bounds |-> bnds, n_initial |-> n_init, X_sample |-> <<>>, y_sample |-> <<>>,
     best_params |-> None, best_value |-> MinusInf]

\* the points np.random.uniform can return inside the bounds, on the integer grid
PointsIn(bnds) ==
    {p \in [1..Len(bnds) -> UNION {bnds[d][1]..bnds[d][2] : d \in 1..Len(bnds)}] :
        \A d \in 1..Len(bnds) : bnds[d][1] <= p[d] /\ p[d] <= bnds[d][2]}

\* (a variant: a score per candidate, here its first coordinate)
AcquisitionPerCandidate(self, X) ==
    [shape |-> "array", values |-> [i \in 1..Len(X) |-> X[i][1]], stats |-> <<>>]

\* acquisition_function.  With observations the code returns ei, which is computed
\* from mu, sigma and best_f of y_sample alone: one scalar, whatever X is.  The
\* scalar is kept as the statistics that determine it: the sum and count of
\* y_sample (mu), n * sum of squares - sum squared (sigma) and the maximum (best_f).
AcquisitionFunction(self, X) ==
    IF Len(self.y_sample) = 0
    THEN [shape |-> "array", values |-> [i \in 1..Len(X) |-> 0], stats |-> <<>>]
    ELSE LET y == self.y_sample
             n == Len(y)
             s == SumSeq(y)
             sq == SumSeq([i \in 1..n |-> y[i] * y[i]])
         IN  [shape |-> "scalar", values |-> <<>>,
              stats |-> <<s, n, n * sq - s * s, SetMax({y[i] : i \in 1..n})>>]

\* np.argmax, 1-based: the first index of the largest element; a scalar is a
\* one-element array
ArgMax(ei_values) ==
    IF ei_values.shape = "scalar" THEN 1
    ELSE LET vs == ei_values.values
             m == SetMax({vs[i] : i \in 1..Len(vs)})
         IN  CHOOSE i \in 1..Len(vs) : vs[i] = m /\ \A j \in 1..(i - 1) : vs[j] # m

\* len(self.X_sample) < self.n_initial
InWarmUp(self) == Len(self.X_sample) < self.n_initial

\* the index propose_location selects in the pool X_rand after warm-up
BestIdx(self, X_rand) == ArgMax(AcquisitionFunction(self, X_rand))

\* update(X, y)
Update(self, X, y) ==
    LET grown == [self EXCEPT !.X_sample = Append(@, X), !.y_sample = Append(@, y)]
    IN  IF Exceeds(y, self.best_value)
        THEN [grown EXCEPT !.best_value = Finite(y), !.best_params = Some(X)]
        ELSE grown

\* get_best_params
GetBestParams(self) ==
    [parameters |-> IF IsNone(self.best_params) THEN <<>> ELSE The(self.best_params),
     best_value |-> self.best_value,
     n_iterations |-> Len(self.X_sample)]

-----------------------------------------------------------------------------
(* PriceElasticityModel                                                    *)

\* np.mean(quantities)
Mean(quantities) == RDiv(R(SumSeq(quantities)), R(Len(quantities)))

\* x ** e for an integer exponent e
RECURSIVE RPow(_, _)
RPow(x, e) ==
    IF e = 0 THEN R(1)
    ELSE IF e < 0 THEN RDiv(R(1), RPow(x, 0 - e))
    ELSE RMul(x, RPow(x, e - 1))

\* predict_demand(current_price, new_price, product_id); coef and base are
\* elasticity_coefficients and base_demand, which calculate_elasticity sets together
PredictDemand(coef, base, current_price, new_price, product_id) ==
    IF product_id \notin DOMAIN coef
    THEN (IF product_id \in DOMAIN base THEN base[product_id] ELSE R(0))
    ELSE RMul(base[product_id], RPow(RDiv(new_price, current_price), coef[product_id]))

Clip(x, rng) == RMin(RMax(x, rng[1]), rng[2])

\* result.x[0] of the L-BFGS-B search seeded at current_price, for an elasticity
\* <= -1: the search is modelled by the point it converges to.  With zero demand
\* the objective is flat and the seed, clipped into the box, is returned.  Otherwise
\* revenue (p - cost) * p^e rises up to p = cost * e / (e + 1) and falls after it
\* (it rises throughout for e = -1), so the maximiser over the box is that point
\* clipped into it.
OptimalPrice(coef, base, product_id, cost, current_price, rng) ==
    IF product_id \notin DOMAIN coef \/ base[product_id] = R(0)
    THEN Clip(current_price, rng)
    ELSE LET e == coef[product_id]
         IN  IF e = 0 - 1 THEN rng[2]
             ELSE Clip(RDiv(RMul(cost, R(e)), R(e + 1)), rng)

\* the dictionary get_optimal_price returns
GetOptimalPrice(coef, base, product_id, cost, current_price, rng) ==
    LET optimal_price == OptimalPrice(coef, base, product_id, cost, current_price, rng)
        optimal_demand == PredictDemand(coef, base, current_price, optimal_price, product_id)
    IN  [optimal_price |-> optimal_price,
         expected_demand |-> optimal_demand,
         expected_revenue |-> RMul(RSub(optimal_price, cost), optimal_demand),
         elasticity |-> IF product_id \in DOMAIN coef THEN coef[product_id] ELSE 0]

-----------------------------------------------------------------------------
(* DynamicPricingEngine.optimize_price: the search interval                *)

RECURSIVE SeqMin(_)
SeqMin(s) == IF Len(s) = 1 THEN s[1] ELSE RMin(s[1], SeqMin(Tail(s)))
RECURSIVE SeqMax(_)
SeqMax(s) == IF Len(s) = 1 THEN s[1] ELSE RMax(s[1], SeqMax(Tail(s)))

\* (a variant: the two thresholds taken inclusively)
InventoryFactorInclusive(inventory_level, target_inventory) ==
    IF RLe(RMul(R(target_inventory), Frac(12, 10)), R(inventory_level)) THEN Frac(95, 100)
    ELSE IF RLe(R(inventory_level), RMul(R(target_inventory), Frac(8, 10))) THEN Frac(105, 100)
    ELSE R(1)

\* lines 238-242; inventory_level and target_inventory are integers
InventoryFactor(inventory_level, target_inventory) ==
    IF RLt(RMul(R(target_inventory), Frac(12, 10)), R(inventory_level)) THEN Frac(95, 100)
    ELSE IF RLt(R(inventory_level), RMul(R(target_inventory), Frac(8, 10))) THEN Frac(105, 100)
    ELSE R(1)

\* lines 235-247; prices are floats, competitor_prices a list of floats
PriceRange(current_price, cost, competitor_prices, inventory_level, target_inventory) ==
    LET min_competitor_price ==
            IF Len(competitor_prices) > 0 THEN SeqMin(competitor_prices)
            ELSE RMul(current_price, Frac(8, 10))
        max_competitor_price ==
            IF Len(competitor_prices) > 0 THEN SeqMax(competitor_prices)
            ELSE RMul(current_price, Frac(12, 10))
        inventory_factor == InventoryFactor(inventory_level, target_inventory)
    IN  <<RMax(RMul(cost, Frac(11, 10)),
               RMul(RMul(min_competitor_price, Frac(95, 100)), inventory_factor)),
          RMin(RMul(current_price, Frac(15, 10)),
               RMul(RMul(max_competitor_price, Frac(105, 100)), inventory_factor))>>

\* the entry optimize_price appends; the timestamp is the model's clock, which
\* ticks once per appended entry
HistoryEntry(history, product_id, recommended_price, current_price, inventory_level) ==
    [timestamp |-> Len(history) + 1,
     product_id |-> product_id,
     recommended_price |-> recommended_price,
     current_price |-> current_price,
     inventory_level |-> inventory_level]

\* self.pricing_history.append(entry)
AppendHistory(history, entry) == Append(history, entry)

HistoryExportWindow == 100

\* (a variant: the oldest entries, self.pricing_history[:100])
ExportedHistoryHead(history) ==
    IF Len(history) <= HistoryExportWindow THEN history
    ELSE SubSeq(history, 1, HistoryExportWindow)

\* self.pricing_history[-100:]
ExportedHistory(history) ==
    IF Len(history) <= HistoryExportWindow THEN history
    ELSE SubSeq(history, Len(history) - HistoryExportWindow + 1, Len(history))

-----------------------------------------------------------------------------
(* The state after construction: a GammaPoissonMixture(), a BayesianABTest() *)
(* and a DynamicPricingEngine() (which owns the BayesianABTest and, once a   *)
(* run started, the BayesianOptimizer).                                      *)

EmptyMap == <<>>
NoRun == [objective |-> EmptyMap, n_iterations |-> 0, i |-> 0, X_next |-> <<>>, y_next |-> 0]
Returned(op, args, value) == [op |-> op, args |-> args, raised |-> FALSE, value |-> value]
\* a call that has started and not yet returned
Running(op, args) == [op |-> op, args |-> args, raised |-> FALSE, value |-> <<>>]
Raised(op, args, error) == [op |-> op, args |-> args, raised |-> TRUE, value |-> error]

Init ==
    /\ mixture = GammaPoissonMixture_init
    /\ fit_iters = 0
    /\ results = EmptyMap
    /\ optimizer = None
    /\ X_random = <<>>
    /\ gamma_poisson_models = EmptyMap
    /\ elasticity_coefficients = EmptyMap
    /\ base_demand = EmptyMap
    /\ pricing_history = <<>>
    /\ price_range = <<R(0), R(0)>>
    /\ pc = "idle"
    /\ run = NoRun
    /\ objective_calls = <<>>
    /\ update_calls = <<>>
    /\ ret = Returned("__init__", <<>>, <<>>)

mixtureVars == <<mixture, fit_iters>>
optimizerVars == <<optimizer, X_random, update_calls>>
runVars == <<pc, run, objective_calls>>
engineVars == <<gamma_poisson_models, elasticity_coefficients, base_demand,
                pricing_history, price_range>>

-----------------------------------------------------------------------------
(* GammaPoissonMixture operations                                          *)

MaxFitIters == 2
MaxPurchases == 2
PurchaseCounts == {0, 1, 3}

\* fit(purchase_data, n_iter)
Fit(purchase_data, n_iter) ==
    /\ pc = "idle"
    /\ fit_iters + n_iter <= MaxFitIters
    /\ \E o \in FitOutcomes(mixture, purchase_data, n_iter) :
          /\ mixture' = o.self
          /\ ret' = IF o.raised THEN Raised("fit", <<purchase_data, n_iter>>, "ValueError")
                    ELSE Returned("fit", <<purchase_data, n_iter>>, o.self)
    /\ fit_iters' = fit_iters + n_iter
    /\ UNCHANGED <<results, optimizerVars, runVars, engineVars>>

\* what predict_demand(n_samples) returns: Poisson draws at Gamma draws, kept as
\* the parameters of the Gamma draw; nan parameters may raise as in fit
PredictOutcomes(self, n_samples) ==
    LET draw == [poisson_of |-> GammaDraw(self.alpha, RDiv(R(1), self.beta), n_samples)]
    IN  IF IsNaN(self.alpha) \/ IsNaN(self.beta)
        THEN {[raised |-> FALSE, value |-> draw], [raised |-> TRUE, value |-> draw]}
        ELSE {[raised |-> FALSE, value |-> draw]}

\* predict_demand(n_samples)
MixturePredictDemand(n_samples) ==
    /\ pc = "idle"
    /\ \E o \in PredictOutcomes(mixture, n_samples) :
          ret' = IF o.raised THEN Raised("predict_demand", <<n_samples>>, "ValueError")
                 ELSE Returned("predict_demand", <<n_samples>>, o.value)
    /\ UNCHANGED <<mixtureVars, results, optimizerVars, runVars, engineVars>>

\* get_distribution_params()
MixtureGetDistributionParams ==
    /\ pc = "idle"
    /\ ret' = Returned("get_distribution_params", <<>>, GetDistributionParams(mixture))
    /\ UNCHANGED <<mixtureVars, results, optimizerVars, runVars, engineVars>>

NextFit ==
    \/ \E purchase_data \in SeqsUpTo(PurchaseCounts, MaxPurchases), n_iter \in 0..MaxFitIters :
          Fit(purchase_data, n_iter)
    \/ \E n_samples \in {1000} : MixturePredictDemand(n_samples)
    \/ MixtureGetDistributionParams

SpecFit == Init /\ [][NextFit]_vars

-----------------------------------------------------------------------------
(* BayesianABTest operations                                               *)

MaxTrials == 1
MaxSamples == 1
SampleValues == {1, 2}

\* update_variant(variant_name, conversions, trials)
DoUpdateVariant(variant_name, conversions, trials) ==
    /\ pc = "idle"
    /\ results' = UpdateVariant(results, variant_name, conversions, trials)
    /\ ret' = Returned("update_variant", <<variant_name, conversions, trials>>, <<>>)
    /\ UNCHANGED <<mixtureVars, optimizerVars, runVars, engineVars>>

\* the arrays np.random.beta can return for each variant: n_samples values each
BetaSamples(res, n_samples) == [DOMAIN res -> [1..n_samples -> SampleValues]]

\* get_probability_best(n_samples)
GetProbabilityBest(n_samples) ==
    /\ pc = "idle"
    /\ IF Cardinality(DOMAIN results) < 2
       THEN ret' = Returned("get_probability_best", <<n_samples>>, EmptyMap)
       ELSE IF ~BetaDrawable(results)
       THEN ret' = Raised("get_probability_best", <<n_samples>>, "ValueError")
       ELSE \E samples \in BetaSamples(results, n_samples) :
               ret' = Returned("get_probability_best", <<n_samples>>,
                               ProbabilityBest(samples, n_samples))
    /\ UNCHANGED <<mixtureVars, results, optimizerVars, runVars, engineVars>>

\* calculate_expected_loss(variant, n_samples)
CalculateExpectedLoss(variant, n_samples) ==
    /\ pc = "idle"
    /\ IF variant \notin DOMAIN results
       THEN ret' = Returned("calculate_expected_loss", <<variant, n_samples>>, R(0))
       ELSE IF ~BetaDrawable(results)
       THEN ret' = Raised("calculate_expected_loss", <<variant, n_samples>>, "ValueError")
       ELSE \E samples \in BetaSamples(results, n_samples) :
               ret' = Returned("calculate_expected_loss", <<variant, n_samples>>,
                               ExpectedLoss(samples, variant, n_samples))
    /\ UNCHANGED <<mixtureVars, results, optimizerVars, runVars, engineVars>>

NextABTest ==
    \/ \E variant_name \in VariantNames, conversions \in 0..MaxTrials, trials \in 0..MaxTrials :
          DoUpdateVariant(variant_name, conversions, trials)
    \/ \E n_samples \in 1..MaxSamples : GetProbabilityBest(n_samples)
    \/ \E variant \in VariantNames, n_samples \in 1..MaxSamples :
          CalculateExpectedLoss(variant, n_samples)

SpecABTest == Init /\ [][NextABTest]_vars

-----------------------------------------------------------------------------
(* BayesianOptimizer operations                                            *)

MaxNInitial == 2
MaxObservations == 3
BoundsChoices == {<<<<0, 1>>>>, <<<<2, 2>>>>}
ObjectiveValues == {0 - 1, 2}

\* the pools np.random.uniform(size=(n_random, d)) is taken from: n_random points
\* of the bounds, a first candidate followed by copies of a second one
Pools(bnds) ==
    {[i \in 1..n_random |-> IF i = 1 THEN seed[1] ELSE seed[2]] :
        seed \in PointsIn(bnds) \X PointsIn(bnds)}

\* BayesianOptimizer(bounds, n_initial)
NewOptimizer(bnds, n_init) ==
    /\ pc = "idle"
    /\ optimizer' = Some(BayesianOptimizer_init(bnds, n_init))
    /\ X_random' = <<>>
    /\ update_calls' = <<>>
    /\ ret' = Returned("BayesianOptimizer", <<bnds, n_init>>, <<>>)
    /\ UNCHANGED <<mixtureVars, results, runVars, engineVars>>

\* propose_location(): the pool it generated (none during warm-up) and its result
ProposeOutcomes(self) ==
    IF InWarmUp(self)
    THEN {[pool |-> <<>>, point |-> x] : x \in PointsIn(self.bounds)}
    ELSE {[pool |-> X_rand, point |-> X_rand[BestIdx(self, X_rand)]] :
             X_rand \in Pools(self.bounds)}

\* propose_location()
ProposeLocation ==
    /\ pc = "idle"
    /\ ~IsNone(optimizer)
    /\ \E o \in ProposeOutcomes(The(optimizer)) :
          /\ X_random' = o.pool
          /\ ret' = Returned("propose_location", <<>>, o.point)
    /\ UNCHANGED <<mixtureVars, results, optimizer, update_calls, runVars, engineVars>>

\* update(X, y)
DoUpdate(X, y) ==
    /\ pc = "idle"
    /\ ~IsNone(optimizer)
    /\ Len(The(optimizer).X_sample) < MaxObservations
    /\ X \in PointsIn(The(optimizer).bounds)
    /\ optimizer' = Some(Update(The(optimizer), X, y))
    /\ update_calls' = Append(update_calls, <<X, y>>)
    /\ X_random' = <<>>
    /\ ret' = Returned("update", <<X, y>>, <<>>)
    /\ UNCHANGED <<mixtureVars, results, runVars, engineVars>>

\* get_best_params()
DoGetBestParams ==
    /\ pc = "idle"
    /\ ~IsNone(optimizer)
    /\ X_random' = <<>>
    /\ ret' = Returned("get_best_params", <<>>, GetBestParams(The(optimizer)))
    /\ UNCHANGED <<mixtureVars, results, optimizer, update_calls, runVars, engineVars>>

NextOptimizer ==
    \/ \E bnds \in BoundsChoices, n_init \in 0..MaxNInitial : NewOptimizer(bnds, n_init)
    \/ ProposeLocation
    \/ \E X \in UNION {PointsIn(bnds) : bnds \in BoundsChoices}, y \in ObjectiveValues :
          DoUpdate(X, y)
    \/ DoGetBestParams

SpecOptimizer == Init /\ [][NextOptimizer]_vars

-----------------------------------------------------------------------------
(* DynamicPricingEngine.run_bayesian_optimization, one step per statement  *)

MaxRunIters == 6
RunBounds == {<<<<0, 1>>>>}

\* (a variant: an optimizer left by an earlier run is kept)
RunOptimizerKept(existing, bnds) ==
    IF IsNone(existing) THEN Some(BayesianOptimizer_init(bnds, n_initial_default))
    ELSE existing

\* line 272: self.optimizer = BayesianOptimizer(bounds)
RunOptimizer(existing, bnds) == Some(BayesianOptimizer_init(bnds, n_initial_default))

\* line 272 and the loop test of the first pass
RunStart(objective_function, bnds, n_iterations) ==
    /\ pc = "idle"
    /\ optimizer' = RunOptimizer(optimizer, bnds)
    /\ run' = [objective |-> objective_function, n_iterations |-> n_iterations, i |-> 0,
               X_next |-> <<>>, y_next |-> 0]
    /\ pc' = IF n_iterations > 0 THEN "propose" ELSE "return"
    /\ objective_calls' = <<>>
    /\ update_calls' = <<>>
    /\ X_random' = <<>>
    /\ ret' = Running("run_bayesian_optimization", <<objective_function, n_iterations>>)
    /\ UNCHANGED <<mixtureVars, results, engineVars>>

\* line 275: X_next = self.optimizer.propose_location()
RunPropose ==
    /\ pc = "propose"
    /\ \E o \in ProposeOutcomes(The(optimizer)) :
          /\ X_random' = o.pool
          /\ run' = [run EXCEPT !.X_next = o.point]
    /\ pc' = "evaluate"
    /\ UNCHANGED <<mixtureVars, results, optimizer, update_calls, objective_calls,
                   engineVars, ret>>

\* line 276: y_next = objective_function(X_next)
RunEvaluate ==
    /\ pc = "evaluate"
    /\ run' = [run EXCEPT !.y_next = run.objective[run.X_next]]
    /\ objective_calls' = Append(objective_calls, <<run.X_next, run.objective[run.X_next]>>)
    /\ X_random' = <<>>
    /\ pc' = "update"
    /\ UNCHANGED <<mixtureVars, results, optimizer, update_calls, engineVars, ret>>

\* line 277 and the loop test: self.optimizer.update(X_next, y_next)
RunUpdate ==
    /\ pc = "update"
    /\ optimizer' = Some(Update(The(optimizer), run.X_next, run.y_next))
    /\ update_calls' = Append(update_calls, <<run.X_next, run.y_next>>)
    /\ run' = [run EXCEPT !.i = @ + 1]
    /\ pc' = IF run.i + 1 < run.n_iterations THEN "propose" ELSE "return"
    /\ UNCHANGED <<mixtureVars, results, X_random, objective_calls, engineVars, ret>>

\* line 279: return self.optimizer.get_best_params()
RunReturn ==
    /\ pc = "return"
    /\ ret' = Returned("run_bayesian_optimization", <<run.objective, run.n_iterations>>,
                       GetBestParams(The(optimizer)))
    /\ pc' = "idle"
    /\ UNCHANGED <<mixtureVars, results, optimizerVars, run, objective_calls, engineVars>>

NextRun ==
    \/ \E bnds \in RunBounds, n_iterations \in 0..MaxRunIters :
          \E objective_function \in [PointsIn(bnds) -> ObjectiveValues] :
              RunStart(objective_function, bnds, n_iterations)
    \/ RunPropose
    \/ RunEvaluate
    \/ RunUpdate
    \/ RunReturn

SpecRun == Init /\ [][NextRun]_vars

-----------------------------------------------------------------------------
(* DynamicPricingEngine operations                                         *)

fit_n_iter_default == 1000
predict_n_samples == 1000
default_n_samples == 10000

\* d[k] = v on a dictionary
MapSet(d, k, v) == [x \in (DOMAIN d) \cup {k} |-> IF x = k THEN v ELSE d[x]]

\* train_demand_model(product_id, purchase_history): a ValueError raised inside fit
\* leaves gamma_poisson_models as it was
TrainDemandModel(product_id, purchase_history) ==
    /\ pc = "idle"
    /\ \E o \in FitOutcomes(GammaPoissonMixture_init, purchase_history, fit_n_iter_default) :
          IF o.raised
          THEN /\ ret' = Raised("train_demand_model", <<product_id, purchase_history>>,
                                "ValueError")
               /\ UNCHANGED gamma_poisson_models
          ELSE /\ gamma_poisson_models' = MapSet(gamma_poisson_models, product_id, o.self)
               /\ ret' = Returned("train_demand_model", <<product_id, purchase_history>>,
                                  GetDistributionParams(o.self))
    /\ UNCHANGED <<mixtureVars, results, optimizerVars, runVars, elasticity_coefficients,
                   base_demand, pricing_history, price_range>>

\* train_elasticity / calculate_elasticity.  The least-squares slope np.polyfit
\* finds on the logarithms is not computed here: it is the input `slope`.
TrainElasticity(product_id, quantities, slope) ==
    /\ pc = "idle"
    /\ elasticity_coefficients' = MapSet(elasticity_coefficients, product_id, slope)
    /\ base_demand' = MapSet(base_demand, product_id, Mean(quantities))
    /\ ret' = Returned("train_elasticity", <<product_id, quantities>>, slope)
    /\ UNCHANGED <<mixtureVars, results, optimizerVars, runVars, gamma_poisson_models,
                   pricing_history, price_range>>

\* the arrays np.random.beta(alpha, beta, 10000) is taken from: constant arrays
DefaultBetaSamples(res) ==
    [DOMAIN res -> {[i \in 1..default_n_samples |-> x] : x \in SampleValues}]

\* self.results after the update_variant loop of run_ab_test
RECURSIVE UpdateAll(_, _, _)
UpdateAll(res, variants, todo) ==
    IF todo = {} THEN res
    ELSE LET v == CHOOSE x \in todo : TRUE
         IN  UpdateAll(UpdateVariant(res, v, variants[v][1], variants[v][2]),
                       variants, todo \ {v})

\* run_ab_test(variants); variants maps a name to <<conversions, trials>>
RunAbTest(variants) ==
    /\ pc = "idle"
    /\ results' = UpdateAll(results, variants, DOMAIN variants)
    /\ IF ~BetaDrawable(results') /\
          (Cardinality(DOMAIN results') >= 2 \/ DOMAIN variants # {})
       THEN ret' = Raised("run_ab_test", <<variants>>, "ValueError")
       ELSE \E probabilities \in
                   (IF Cardinality(DOMAIN results') < 2 THEN {EmptyMap}
                    ELSE {ProbabilityBest(smp, default_n_samples) :
                             smp \in DefaultBetaSamples(results')}) :
               \E drawn \in [DOMAIN variants -> DefaultBetaSamples(results')] :
                   ret' = Returned("run_ab_test", <<variants>>,
                              [probabilities |-> probabilities,
                               expected_loss |->
                                   [v \in DOMAIN variants |->
                                       ExpectedLoss(drawn[v], v, default_n_samples)],
                               variant_stats |-> results'])
    /\ UNCHANGED <<mixtureVars, optimizerVars, runVars, engineVars>>

\* optimize_price(product_id, current_price, cost, competitor_prices,
\*                inventory_level, target_inventory).
\* scipy's minimize raises ValueError for an L-BFGS-B box whose lower bound exceeds
\* its upper bound; an exception leaves pricing_history as it was.
OptimizePrice(product_id, current_price, cost, competitor_prices, inventory_level, target_inventory) ==
    LET args == <<product_id, current_price, cost, competitor_prices, inventory_level,
                  target_inventory>>
        \* lines 253-268, once get_optimal_price has returned optimal_result
        Finish(optimal_result) ==
            LET entry == HistoryEntry(pricing_history, product_id,
                                      optimal_result.optimal_price, current_price,
                                      inventory_level)
            IN  IF product_id \in DOMAIN gamma_poisson_models
                THEN \E o \in PredictOutcomes(gamma_poisson_models[product_id],
                                              predict_n_samples) :
                        IF o.raised
                        THEN /\ ret' = Raised("optimize_price", args, "ValueError")
                             /\ UNCHANGED pricing_history
                        ELSE /\ ret' = Returned("optimize_price", args,
                                           [result |-> optimal_result,
                                            demand_confidence_interval |->
                                                Some([percentiles |-> <<5, 95>>,
                                                      of |-> o.value])])
                             /\ pricing_history' = AppendHistory(pricing_history, entry)
                ELSE /\ ret' = Returned("optimize_price", args,
                                   [result |-> optimal_result,
                                    demand_confidence_interval |-> None])
                     /\ pricing_history' = AppendHistory(pricing_history, entry)
    IN  /\ pc = "idle"
        \* the local price_range and then optimal_result, each computed once
        /\ \E rng \in {PriceRange(current_price, cost, competitor_prices,
                                  inventory_level, target_inventory)} :
              /\ price_range' = rng
              /\ IF RLt(rng[2], rng[1])
                 THEN /\ ret' = Raised("optimize_price", args, "ValueError")
                      /\ UNCHANGED pricing_history
                 ELSE \E optimal_result \in
                             {GetOptimalPrice(elasticity_coefficients, base_demand,
                                              product_id, cost, current_price, rng)} :
                         Finish(optimal_result)
        /\ UNCHANGED <<mixtureVars, results, optimizerVars, runVars, gamma_poisson_models,
                       elasticity_coefficients, base_demand>>

\* generate_pricing_report(product_ids)
GeneratePricingReport(product_ids) ==
    LET pids == {product_ids[k] : k \in 1..Len(product_ids)}
        known == {k \in 1..Len(product_ids) : product_ids[k] \in DOMAIN elasticity_coefficients}
        elasticities == [k \in known |-> elasticity_coefficients[product_ids[k]]]
        RECURSIVE total(_)
        total(K) == IF K = {} THEN 0
                    ELSE LET k == CHOOSE x \in K : TRUE IN elasticities[k] + total(K \ {k})
        product_info(pid) ==
            [demand_model |-> IF pid \in DOMAIN gamma_poisson_models
                              THEN Some(GetDistributionParams(gamma_poisson_models[pid]))
                              ELSE None,
             elasticity |-> IF pid \in DOMAIN elasticity_coefficients
                            THEN Some(elasticity_coefficients[pid]) ELSE None]
    IN  /\ pc = "idle"
        /\ ret' = Returned("generate_pricing_report", <<product_ids>>,
                      [products |-> [pid \in pids |-> product_info(pid)],
                       summary |->
                           [total_products |-> Len(product_ids),
                            avg_elasticity |-> IF known = {} THEN R(0)
                                               ELSE Frac(total(known), Cardinality(known)),
                            optimization_history_length |-> Len(pricing_history)]])
        /\ UNCHANGED <<mixtureVars, results, optimizerVars, runVars, engineVars>>

\* export_state()
ExportState ==
    /\ pc = "idle"
    /\ ret' = Returned("export_state", <<>>,
                  [gamma_poisson_models |->
                       [pid \in DOMAIN gamma_poisson_models |->
                           GetDistributionParams(gamma_poisson_models[pid])],
                   elasticity_coefficients |-> elasticity_coefficients,
                   base_demand |-> base_demand,
                   pricing_history |-> ExportedHistory(pricing_history)])
    /\ UNCHANGED <<mixtureVars, results, optimizerVars, runVars, engineVars>>

-----------------------------------------------------------------------------
(* optimize_price over a range of market situations                        *)

MaxPriceCalls == 1
TrainedProduct == "product_001"
Costs == {R(10), R(25)}
CurrentPrices == {R(11), R(20)}
CompetitorLists == {<<>>, <<R(1)>>, <<R(25), R(15)>>}
InventoryLevels == {3, 4, 5, 6, 7}
TargetInventories == {5}
Slopes == {0 - 2, 0 - 1}

\* DynamicPricingEngine.config is never written and is left out of the state.
NextPrice ==
    \/ /\ Len(pricing_history) < MaxPriceCalls
       /\ \E product_id \in {TrainedProduct}, current_price \in CurrentPrices, cost \in Costs,
             competitor_prices \in CompetitorLists, inventory_level \in InventoryLevels,
             target_inventory \in TargetInventories :
             OptimizePrice(product_id, current_price, cost, competitor_prices,
                           inventory_level, target_inventory)
    \/ \E slope \in Slopes : TrainElasticity(TrainedProduct, <<1, 3>>, slope)

SpecPrice == Init /\ [][NextPrice]_vars

-----------------------------------------------------------------------------
(* The engine over a long sequence of optimize_price calls                 *)

MaxHistory == 101
\* purchase histories on which the 1000 passes of fit can be followed exactly: the
\* empty one (nan after one pass) and one that fit leaves at the default parameters
PurchaseHistories == {<<>>, <<2, 2, 2>>}

\* the k-th optimize_price call of the sequence: the products alternate and the
\* inventory level runs through the three inventory regimes
CallProduct(k) == IF k % 2 = 1 THEN "product_001" ELSE "product_002"
CallInventory(k) == 3 + 2 * (k % 3)

NextEngine ==
    \/ /\ Len(pricing_history) < MaxHistory
       /\ OptimizePrice(CallProduct(Len(pricing_history) + 1), R(10), R(5),
                        <<R(9), R(12)>>, CallInventory(Len(pricing_history) + 1), 5)
    \/ \E purchase_history \in PurchaseHistories :
          TrainDemandModel(TrainedProduct, purchase_history)
    \/ TrainElasticity(TrainedProduct, <<10, 20>>, 0 - 2)
    \/ RunAbTest(EmptyMap)
    \/ \E objective_function \in [PointsIn(<<<<2, 2>>>>) -> {0}] :
          RunStart(objective_function, <<<<2, 2>>>>, 1)
    \/ RunPropose
    \/ RunEvaluate
    \/ RunUpdate
    \/ RunReturn
    \/ GeneratePricingReport(<<"product_001", "product_002">>)
    \/ ExportState

SpecEngine == Init /\ [][NextEngine]_vars

-----------------------------------------------------------------------------
(* Claims                                                                  *)

\* the largest y among the calls in a log of (x, y) pairs, and the first call with it
MaxY(calls) == SetMax({calls[k][2] : k \in 1..Len(calls)})
FirstWith(calls, y) ==
    CHOOSE k \in 1..Len(calls) : calls[k][2] = y /\ \A j \in 1..(k - 1) : calls[j][2] # y

\* C1: after any sequence of update(x, y) calls on a fresh optimizer, get_best_params
\* reports the number of update calls as n_iterations; with no call, parameters []
\* and best_value -inf; otherwise the largest y as best_value and the x of the
\* earliest call with that y as parameters.
C1_BestParamsReport ==
    ret.op = "get_best_params" =>
        /\ ret.value.n_iterations = Len(update_calls)
        /\ IF Len(update_calls) = 0
           THEN ret.value.parameters = <<>> /\ ret.value.best_value = MinusInf
           ELSE /\ ret.value.best_value = Finite(MaxY(update_calls))
                /\ ret.value.parameters =
                       update_calls[FirstWith(update_calls, MaxY(update_calls))][1]

\* a report after a later call repeated the largest y at another point
C1_Witness ==
    /\ ret.op = "get_best_params"
    /\ \E j, k \in 1..Len(update_calls) :
          /\ j < k
          /\ update_calls[j][2] = MaxY(update_calls)
          /\ update_calls[k][2] = MaxY(update_calls)
          /\ update_calls[j][1] # update_calls[k][1]

\* C2: every stored variant record has 0 <= conversions <= trials and
\* posterior alpha > 0, beta > 0 (update_variant rejects conversions > trials).
C2_RecordsValid ==
    \A v \in DOMAIN results :
        /\ 0 <= results[v].conversions
        /\ results[v].conversions <= results[v].trials
        /\ results[v].alpha > 0
        /\ results[v].beta > 0

\* the wins get_probability_best credited in total: each returned entry is a
\* count divided by n_samples
TotalWins(probabilities, n_samples) ==
    LET cells == (DOMAIN probabilities) \X (1..n_samples)
        wins(c) == probabilities[c[1]][c[2]][1] * (n_samples \div probabilities[c[1]][c[2]][2])
        RECURSIVE total(_)
        total(C) == IF C = {} THEN 0
                    ELSE LET c == CHOOSE x \in C : TRUE IN wins(c) + total(C \ {c})
    IN  total(cells)

\* C3: get_probability_best over at least 2 variants credits every draw to exactly
\* one variant, so the wins sum to n_samples; with fewer than 2 variants the result
\* is empty.
C3_EveryDrawCreditedOnce ==
    (ret.op = "get_probability_best" /\ ~ret.raised) =>
        IF Cardinality(DOMAIN results) < 2
        THEN ret.value = EmptyMap
        ELSE TotalWins(ret.value, ret.args[1]) = ret.args[1]

\* C4: after any sequence of fit calls the stored alpha and beta are finite and
\* strictly positive.
C4_ParamsFinitePositive ==
    /\ IsFinite(mixture.alpha) /\ RLt(R(0), mixture.alpha)
    /\ IsFinite(mixture.beta) /\ RLt(R(0), mixture.beta)

\* C5: update_variant(name, conversions, trials) stores for name the record with
\* alpha = prior alpha + conversions and beta = prior beta + trials - conversions,
\* whatever was stored for name before, and leaves every other record unchanged.
C5_UpdateOverwrites ==
    [][ret'.op = "update_variant" =>
          LET name == ret'.args[1]
              conversions == ret'.args[2]
              trials == ret'.args[3]
          IN  /\ DOMAIN results' = (DOMAIN results) \cup {name}
              /\ results'[name].alpha = prior_alpha + conversions
              /\ results'[name].beta = prior_beta + trials - conversions
              /\ results'[name].conversions = conversions
              /\ results'[name].trials = trials
              /\ (conversions = 0 /\ trials = 0 =>
                     results'[name].alpha = prior_alpha /\ results'[name].beta = prior_beta)
              /\ \A other \in (DOMAIN results) \ {name} : results'[other] = results[other]]_vars

\* a re-update with conversions = trials = 0 next to another variant's record
C5_Witness ==
    /\ ret.op = "update_variant"
    /\ ret.args[2] = 0 /\ ret.args[3] = 0
    /\ results[ret.args[1]].alpha = prior_alpha
    /\ \E other \in DOMAIN results : other # ret.args[1] /\ results[other].trials > 0

-----------------------------------------------------------------------------
\* the arguments of the optimize_price call that ret reports
ArgCurrentPrice == ret.args[2]
ArgCost == ret.args[3]
ArgCompetitors == ret.args[4]
ArgInventory == ret.args[5]
ArgTarget == ret.args[6]
\* the smallest and largest of a non-empty list of whole-number prices
LowestOf(prices) == CHOOSE m \in {prices[k][1] : k \in 1..Len(prices)} :
                        \A k \in 1..Len(prices) : m <= prices[k][1]
HighestOf(prices) == CHOOSE m \in {prices[k][1] : k \in 1..Len(prices)} :
                         \A k \in 1..Len(prices) : m >= prices[k][1]
IntMax(a, b) == IF a >= b THEN a ELSE b
IntMin(a, b) == IF a <= b THEN a ELSE b

\* C6: with a non-empty competitor list optimize_price hands get_optimal_price
\* [max(cost*1.1, minCompetitor*0.95*f), min(currentPrice*1.5, maxCompetitor*1.05*f)]
\* with f = 0.95 if inventory > 1.2*target, 1.05 if inventory < 0.8*target, else 1.0
\* (also at inventory = 1.2*target and inventory = 0.8*target).  Stated in units
\* of 1/2000 of the (whole-number) prices: 0.95*0.95 = 1805/2000, 0.95 = 1900/2000,
\* 0.95*1.05 = 1995/2000, 1.05 = 2100/2000, 1.05*1.05 = 2205/2000.
C6_SearchInterval ==
    (ret.op = "optimize_price" /\ Len(ArgCompetitors) > 0) =>
        LET high == 10 * ArgInventory > 12 * ArgTarget
            low == 10 * ArgInventory < 8 * ArgTarget
            lo == IntMax(2200 * ArgCost[1],
                         (IF high THEN 1805 ELSE IF low THEN 1995 ELSE 1900)
                             * LowestOf(ArgCompetitors))
            hi == IntMin(3000 * ArgCurrentPrice[1],
                         (IF high THEN 1995 ELSE IF low THEN 2205 ELSE 2100)
                             * HighestOf(ArgCompetitors))
        IN  price_range = <<Frac(lo, 2000), Frac(hi, 2000)>>

\* a call at the boundary inventory = 1.2 * target, and one at 0.8 * target
C6_Witness ==
    /\ ret.op = "optimize_price"
    /\ Len(ArgCompetitors) > 1
    /\ 10 * ArgInventory = 12 * ArgTarget
    /\ ~ret.raised
    /\ Len(pricing_history) > 0

\* C10: for 0 < cost < currentPrice and positive competitor prices (or none) the
\* interval handed to get_optimal_price has its lower bound <= its upper bound.
C10_IntervalWellFormed ==
    (/\ ret.op = "optimize_price"
     /\ RLt(R(0), ArgCost) /\ RLt(ArgCost, ArgCurrentPrice)
     /\ \A k \in 1..Len(ArgCompetitors) : RLt(R(0), ArgCompetitors[k]))
        => RLe(price_range[1], price_range[2])

\* C7: the pricing history is append-only.  A completed optimize_price call appends
\* exactly one entry, made of its product id, the recommended price, its current
\* price and its inventory level; no other step changes the history; export_state
\* returns the most recent min(length, 100) entries in their order and leaves the
\* history as long as it was.
C7_HistoryAppendOnly ==
    [][/\ Len(pricing_history') >= Len(pricing_history)
       /\ SubSeq(pricing_history', 1, Len(pricing_history)) = pricing_history
       /\ IF ret'.op = "optimize_price" /\ ~ret'.raised
          THEN /\ Len(pricing_history') = Len(pricing_history) + 1
               /\ LET last == pricing_history'[Len(pricing_history')]
                  IN  /\ last.product_id = ret'.args[1]
                      /\ last.recommended_price = ret'.value.result.optimal_price
                      /\ last.current_price = ret'.args[2]
                      /\ last.inventory_level = ret'.args[5]
          ELSE pricing_history' = pricing_history
       /\ ret'.op = "export_state" =>
             LET out == ret'.value.pricing_history
                 n == Len(pricing_history')
             IN  /\ Len(out) = IntMin(n, 100)
                 /\ \A k \in 1..Len(out) : out[k] = pricing_history'[n - Len(out) + k]
      ]_vars

\* an export of a history longer than the exported window
C7_Witness ==
    /\ ret.op = "export_state"
    /\ Len(pricing_history) > 100
    /\ Len(ret.value.pricing_history) = 100
    /\ ret.value.pricing_history[1] = pricing_history[Len(pricing_history) - 99]

\* C8: propose_location is in warm-up (draws no pool) exactly when there are fewer
\* than n_initial observations; after warm-up it returns the first candidate of
\* the pool, whatever values were observed.
C8_FirstCandidate ==
    ret.op = "propose_location" =>
        /\ (Len(X_random) = 0) <=>
               (Len(The(optimizer).X_sample) < The(optimizer).n_initial)
        /\ Len(X_random) > 0 => ret.value = X_random[1]

\* a proposal after warm-up, with unequal observed values, from a pool whose first
\* candidate is not its largest
C8_Witness ==
    /\ ret.op = "propose_location"
    /\ Len(X_random) > 0
    /\ X_random[1][1] < X_random[2][1]
    /\ ret.value = X_random[1]
    /\ \E j, k \in 1..Len(The(optimizer).y_sample) :
          The(optimizer).y_sample[j] # The(optimizer).y_sample[k]

\* C9: a run of n iterations starts from a fresh optimizer and in each iteration
\* proposes, evaluates the objective once on the proposed point and updates with
\* that (point, value): the objective is called n times, the observations are
\* exactly these calls in order, the returned count is n and the returned best
\* value is the largest objective value of this run.
C9_RunFreshAndOrdered ==
    /\ pc # "idle" =>
          /\ The(optimizer).X_sample = [k \in 1..Len(update_calls) |-> update_calls[k][1]]
          /\ The(optimizer).y_sample = [k \in 1..Len(update_calls) |-> update_calls[k][2]]
          /\ \A k \in 1..Len(objective_calls) :
                objective_calls[k][2] = run.objective[objective_calls[k][1]]
    /\ pc \in {"propose", "evaluate"} =>
          Len(objective_calls) = run.i /\ update_calls = objective_calls
    /\ pc = "update" =>
          /\ Len(objective_calls) = run.i + 1
          /\ objective_calls[run.i + 1] = <<run.X_next, run.y_next>>
          /\ update_calls = SubSeq(objective_calls, 1, run.i)
    /\ pc = "return" => update_calls = objective_calls /\ run.i >= run.n_iterations
    /\ (pc = "idle" /\ ret.op = "run_bayesian_optimization") =>
          /\ Len(objective_calls) = ret.args[2]
          /\ ret.value.n_iterations = ret.args[2]
          /\ IF ret.args[2] = 0
             THEN ret.value.best_value = MinusInf /\ ret.value.parameters = <<>>
             ELSE ret.value.best_value = Finite(MaxY(objective_calls))

\* a finished run that left warm-up and whose best value is not its last one
C9_Witness ==
    /\ pc = "idle"
    /\ ret.op = "run_bayesian_optimization"
    /\ ret.args[2] > n_initial_default
    /\ ret.value.best_value # Finite(objective_calls[Len(objective_calls)][2])
    /\ ret.value.n_iterations = Len(objective_calls)

====
